---------------------------- MODULE Spec2Model ----------------------------
(***************************************************************************)
(* Model of the research-paper explorer front end.                         *)
(*                                                                         *)
(*   src/static/script.js   the page script: category sidebar, year        *)
(*                          filter, popular papers, debounced autocomplete *)
(*                          and the main search                            *)
(*   src/unnamed/part_000   the stand-alone page script: main search only  *)
(*                                                                         *)
(* A JavaScript string is a sequence of atoms.  An atom is one character   *)
(* of the string; text that is never measured nor taken apart (a fixed     *)
(* message, a URL path, a category name) is written as one atom.  The      *)
(* values typed into the search field and the suggestion titles are        *)
(* written one character per atom, so that Len is String.length.           *)
(***************************************************************************)
EXTENDS Integers, Sequences, FiniteSets, TLC

(***************************************************************************)
(* Bounds of the model.                                                    *)
(***************************************************************************)
\* debounce timers armed in one run (each issues at most one request)
MaxTimers == 2
\* main searches started in one run
MaxSearches == 2
\* popular-papers loads started in one run, the one of init() included
MaxLoads == 3
\* longest list of repos rendered alone
MaxRepos == 3
\* longest suggestion list the server answers with
MaxSuggestions == 3

Min(a, b) == IF a < b THEN a ELSE b
Max(a, b) == IF a > b THEN a ELSE b

(***************************************************************************)
(* Strings.                                                                *)
(***************************************************************************)
QUOTE == "\""
SPACE == " "

\* String.prototype.trim: strip the white space at both ends
RECURSIVE TrimLeft(_)
TrimLeft(s) ==
    IF s # <<>> /\ Head(s) = SPACE THEN TrimLeft(Tail(s)) ELSE s

RECURSIVE TrimRight(_)
TrimRight(s) ==
    IF s # <<>> /\ s[Len(s)] = SPACE THEN TrimRight(SubSeq(s, 1, Len(s) - 1)) ELSE s

Trim(s) == TrimRight(TrimLeft(s))

\* escapeHtml: div.textContent = text; return div.innerHTML.  The HTML
\* serialisation of a text node escapes &, < and > and nothing else: a
\* double quote is written as it is.
EscapeAtom(c) ==
    CASE c = "&" -> "&amp;"
      [] c = "<" -> "&lt;"
      [] c = ">" -> "&gt;"
      [] OTHER   -> c

escapeHtml(text) == [i \in 1..Len(text) |-> EscapeAtom(text[i])]

\* the HTML parser's character references, in text and in attribute values
UnescapeAtom(c) ==
    CASE c = "&amp;" -> "&"
      [] c = "&lt;"  -> "<"
      [] c = "&gt;"  -> ">"
      [] OTHER       -> c

\* The value the HTML parser gives an attribute written name="<html>": the
\* value ends at the first double quote, and character references in it
\* are decoded.
RECURSIVE UpToQuote(_)
UpToQuote(html) ==
    IF html = <<>> \/ Head(html) = QUOTE THEN <<>>
    ELSE <<Head(html)>> \o UpToQuote(Tail(html))

AttributeValue(html) ==
    LET v == UpToQuote(html) IN [i \in 1..Len(v) |-> UnescapeAtom(v[i])]

\* The text the HTML parser gives an element whose content is written
\* <html>: what stands between a < and the next > is markup, not text, and
\* character references are decoded.
RECURSIVE TextContent(_)
RECURSIVE SkipMarkup(_)
SkipMarkup(html) ==
    IF html = <<>> THEN <<>>
    ELSE IF Head(html) = ">" THEN TextContent(Tail(html))
    ELSE SkipMarkup(Tail(html))

TextContent(html) ==
    IF html = <<>> THEN <<>>
    ELSE IF Head(html) = "<" THEN SkipMarkup(Tail(html))
    ELSE <<UnescapeAtom(Head(html))>> \o TextContent(Tail(html))

\* encodeURIComponent: everything but letters, digits and - _ . ! ~ * ' ( )
\* becomes %XX
EncodeAtom(c) ==
    CASE c = SPACE -> "%20"
      [] c = QUOTE -> "%22"
      [] c = "&"   -> "%26"
      [] c = "<"   -> "%3C"
      [] c = "="   -> "%3D"
      [] c = "?"   -> "%3F"
      [] OTHER     -> c

encodeURIComponent(s) == [i \in 1..Len(s) |-> EncodeAtom(s[i])]

(***************************************************************************)
(* State.                                                                  *)
(***************************************************************************)
VARIABLES
    script,                     \* which page script runs: "static" or "part_000"
    renderArg,                  \* body of the response whose repos are rendered alone
    inputValue,                 \* paperInput.value
    currentCategory,            \* let currentCategory
    currentYear,                \* let currentYear
    autocompleteSuggestions,    \* let autocompleteSuggestions
    selectedSuggestionIndex,    \* let selectedSuggestionIndex
    autocompleteDebounceTimer,  \* let autocompleteDebounceTimer: a timer id or null
    dropdownVisible,            \* autocompleteDropdown.classList has "visible"
    dropdownItems,              \* the .autocomplete-item elements of the dropdown
    timers,                     \* the browser's armed timers
    timerCount,                 \* setTimeout calls so far (the last id given)
    suggestRequests,            \* /api/search-suggestions requests in flight
    suggestIssued,              \* suggestion requests issued so far
    searchRequests,             \* /api/search requests in flight
    searchIssued,               \* search requests issued so far
    videosContainer,            \* videosContainer.innerHTML
    reposContainer,             \* reposContainer.innerHTML
    popularPapersContainer,     \* popularPapersContainer.innerHTML
    paperRequests,              \* /api/popular-papers requests in flight
    paperIssued,                \* popular-papers requests issued so far
    lastInput,                  \* trimmed value of the latest input event
    sinceInput                  \* ms since the latest input event, up to the delay

acVars == <<autocompleteSuggestions, selectedSuggestionIndex, dropdownVisible,
            dropdownItems>>
timerVars == <<autocompleteDebounceTimer, timers, timerCount>>
suggestVars == <<suggestRequests, suggestIssued>>
searchVars == <<searchRequests, searchIssued, videosContainer, reposContainer>>
pageVars == <<script, renderArg>>
filterVars == <<currentCategory, currentYear>>
paperVars == <<popularPapersContainer, paperRequests, paperIssued>>
clockVars == <<lastInput, sinceInput>>

vars == <<pageVars, inputValue, filterVars, paperVars, acVars, timerVars,
          suggestVars, searchVars, clockVars>>

(***************************************************************************)
(* Values of the environment: what the user types and what the server      *)
(* answers.                                                                *)
(***************************************************************************)
\* the values an input event carries: empty, blank, one character, one
\* character in blanks, two and three characters, with blanks outside and
\* inside
InputValues ==
    {<<>>, <<SPACE>>, <<"a">>, <<SPACE, "a">>, <<"a", "a">>, <<"a", "a", SPACE>>,
     <<"a", "a", "a">>, <<"a", SPACE, "a">>}

\* Paper titles the suggestion endpoint answers with: one with a character
\* that escapeHtml rewrites, one that starts with a double quote.
PlainTitle == <<"a", "<">>
QuotedTitle == <<QUOTE, "a">>
Titles == {PlainTitle, QuotedTitle}

Suggestion(t) == [title |-> t]

\* the lists of n suggestions whose titles alternate, starting with `first`
SuggestionList(n, first) ==
    [i \in 1..n |->
        Suggestion(IF i % 2 = 1 THEN first
                   ELSE CHOOSE t \in Titles : t # first)]

SuggestionLists ==
    {SuggestionList(n, first) : n \in 0..MaxSuggestions, first \in Titles}

\* let autocompleteDebounceTimer = null; timer ids are positive
NoTimer == 0

\* the fixed delay of the debounce, in ms
DebounceDelay == 300
\* time advances in steps of a third of the delay
TickMs == DebounceDelay \div 3

ALL == <<"All">>
Categories == {ALL, <<"NLP">>}
\* currentYear is null until a year is chosen; null and the empty value
\* of "All Years" are both falsy, and are both written as the empty string
NoYear == <<>>
Years == {NoYear, <<"2020">>}

(***************************************************************************)
(* The page regions.                                                       *)
(***************************************************************************)
\* a response body that carries neither list
NoData == [took |-> <<"1">>]

Blank == [kind |-> "blank"]
LoadingDots == [kind |-> "loading-dots"]
LoadingState == [kind |-> "loading-state"]
ErrorBanner(html) == [kind |-> "error-banner", text |-> TextContent(html)]
EmptyState(msg) == [kind |-> "empty-state", text |-> <<msg>>]

(***************************************************************************)
(* Popular papers.                                                         *)
(***************************************************************************)
\* the URL loadPopularPapers builds: the year is appended as it is
PopularPapersUrl(category, year) ==
    <<"/api/popular-papers", "?", "category", "=">> \o encodeURIComponent(category)
        \o (IF year # NoYear THEN <<"&", "year", "=">> \o year ELSE <<>>)

\* loadPopularPapers(category, year), up to its await of fetch
loadPopularPapers(category, year) ==
    /\ paperIssued < MaxLoads
    /\ popularPapersContainer' = LoadingState
    /\ paperIssued' = paperIssued + 1
    /\ paperRequests' = paperRequests \cup
          {[id |-> paperIssued + 1, url |-> PopularPapersUrl(category, year)]}

Paper(title, category) == [title |-> title, category |-> category]

\* the bodies /api/popular-papers answers with
PapersData ==
    {NoData,
     [took |-> <<"1">>, papers |-> <<>>],
     [took |-> <<"1">>, papers |-> <<Paper(PlainTitle, <<"NLP">>)>>],
     [took |-> <<"1">>, papers |-> <<Paper(QuotedTitle, <<"NLP">>)>>]}

\* the .paper-card renderPopularPapers gives for one paper; the category
\* badge is shown when the category is not the current one
PaperCard(paper, category) ==
    [paper |-> AttributeValue(escapeHtml(paper.title)),
     title |-> TextContent(escapeHtml(paper.title)),
     badge |-> IF paper.category # <<>> /\ paper.category # category
               THEN TextContent(escapeHtml(paper.category)) ELSE <<>>]

\* renderPopularPapers(papers)
renderPopularPapers(papers, category) ==
    IF Len(papers) = 0
    THEN EmptyState("No papers found for this category and year")
    ELSE [kind |-> "cards",
          cards |-> [i \in 1..Len(papers) |-> PaperCard(papers[i], category)]]

(***************************************************************************)
(* Initial state: the page after init() has set up the event listeners     *)
(* and, on the static page, started the first load of the popular papers.  *)
(***************************************************************************)
Scripts == {"static", "part_000"}

PageInit ==
    /\ script \in Scripts
    /\ inputValue = <<>>
    /\ currentCategory = ALL
    /\ currentYear = NoYear
    /\ autocompleteSuggestions = <<>>
    /\ selectedSuggestionIndex = -1
    /\ autocompleteDebounceTimer = NoTimer
    /\ dropdownVisible = FALSE
    /\ dropdownItems = <<>>
    /\ timers = {}
    /\ timerCount = 0
    /\ suggestRequests = {}
    /\ suggestIssued = 0
    /\ searchRequests = {}
    /\ searchIssued = 0
    /\ videosContainer = Blank
    /\ reposContainer = Blank
    /\ IF script = "static"
       THEN /\ popularPapersContainer = LoadingState
            /\ paperRequests = {[id |-> 1, url |-> PopularPapersUrl(ALL, NoYear)]}
            /\ paperIssued = 1
       ELSE /\ popularPapersContainer = Blank
            /\ paperRequests = {}
            /\ paperIssued = 0
    /\ lastInput = <<>>
    /\ sinceInput = 0

Init == PageInit /\ renderArg = NoData

(***************************************************************************)
(* Autocomplete.                                                           *)
(***************************************************************************)
\* hideAutocomplete()
hideAutocomplete ==
    /\ dropdownVisible' = FALSE
    /\ dropdownItems' = <<>>
    /\ autocompleteSuggestions' = <<>>
    /\ selectedSuggestionIndex' = -1

\* The element the template of renderAutocompleteSuggestions gives for one
\* suggestion: data-paper="${escapeHtml(title)}" as the parser reads it
\* back, and the title it shows.
AutocompleteItem(suggestion) ==
    [paper |-> AttributeValue(escapeHtml(suggestion.title)),
     text  |-> TextContent(escapeHtml(suggestion.title))]

\* renderAutocompleteSuggestions that keeps the selected index
RenderSuggestionsKeepingIndex(suggestions) ==
    IF Len(suggestions) = 0
    THEN hideAutocomplete
    ELSE /\ autocompleteSuggestions' = suggestions
         /\ selectedSuggestionIndex' = selectedSuggestionIndex
         /\ dropdownItems' = [i \in 1..Len(suggestions) |->
                                AutocompleteItem(suggestions[i])]
         /\ dropdownVisible' = TRUE

\* renderAutocompleteSuggestions(), with the list just stored in
\* autocompleteSuggestions
renderAutocompleteSuggestions(suggestions) ==
    IF Len(suggestions) = 0
    THEN hideAutocomplete
    ELSE /\ autocompleteSuggestions' = suggestions
         /\ selectedSuggestionIndex' = -1
         /\ dropdownItems' = [i \in 1..Len(suggestions) |->
                                AutocompleteItem(suggestions[i])]
         /\ dropdownVisible' = TRUE

\* clearTimeout(id): a timer that has fired, or no timer, clears nothing
clearTimeout(id) == {t \in timers : t.id # id}

SuggestionsUrl(query) ==
    <<"/api/search-suggestions", "?", "q", "=">> \o encodeURIComponent(query)

\* handleSearchInput without clearTimeout
HandleSearchInputNoClear(v) ==
    LET query == Trim(v)
    IN  /\ script = "static"
        /\ inputValue' = v
        /\ lastInput' = query
        /\ sinceInput' = 0
        /\ IF Len(query) < 2
           THEN /\ timers' = timers
                /\ hideAutocomplete
                /\ UNCHANGED <<autocompleteDebounceTimer, timerCount>>
           ELSE /\ timerCount < MaxTimers
                /\ timerCount' = timerCount + 1
                /\ autocompleteDebounceTimer' = timerCount + 1
                /\ timers' = timers \cup
                      {[id |-> timerCount + 1, query |-> query,
                        remaining |-> DebounceDelay]}
                /\ UNCHANGED acVars
        /\ UNCHANGED <<pageVars, filterVars, paperVars, suggestVars, searchVars>>

\* handleSearchInput(event): the user changes the field to v
handleSearchInput(v) ==
    LET query == Trim(v)
        cleared == IF autocompleteDebounceTimer # NoTimer
                   THEN clearTimeout(autocompleteDebounceTimer)
                   ELSE timers
    IN  /\ script = "static"
        /\ inputValue' = v
        /\ lastInput' = query
        /\ sinceInput' = 0
        /\ IF Len(query) < 2
           THEN /\ timers' = cleared
                /\ hideAutocomplete
                /\ UNCHANGED <<autocompleteDebounceTimer, timerCount>>
           ELSE /\ timerCount < MaxTimers
                /\ timerCount' = timerCount + 1
                /\ autocompleteDebounceTimer' = timerCount + 1
                /\ timers' = cleared \cup
                      {[id |-> timerCount + 1, query |-> query,
                        remaining |-> DebounceDelay]}
                /\ UNCHANGED acVars
        /\ UNCHANGED <<pageVars, filterVars, paperVars, suggestVars, searchVars>>

Input == \E v \in InputValues : handleSearchInput(v)

\* Time passes: every armed timer comes TickMs closer to firing.  A timer
\* that is due fires before more time passes.
Tick ==
    /\ \A t \in timers : t.remaining > 0
    /\ sinceInput < DebounceDelay \/ timers # {}
    /\ timers' = {[t EXCEPT !.remaining = Max(t.remaining - TickMs, 0)] : t \in timers}
    /\ sinceInput' = Min(sinceInput + TickMs, DebounceDelay)
    /\ UNCHANGED <<pageVars, inputValue, filterVars, paperVars, acVars, autocompleteDebounceTimer,
                   timerCount, suggestVars, searchVars, lastInput>>

\* The callback of setTimeout runs: loadAutocompleteSuggestions(query), up
\* to its await of fetch.
TimerFires(t) ==
    /\ t \in timers
    /\ t.remaining = 0
    /\ timers' = timers \ {t}
    /\ suggestIssued' = suggestIssued + 1
    /\ suggestRequests' = suggestRequests \cup
          {[id |-> suggestIssued + 1, url |-> SuggestionsUrl(t.query)]}
    /\ UNCHANGED <<pageVars, inputValue, filterVars, paperVars, acVars, autocompleteDebounceTimer,
                   timerCount, searchVars, clockVars>>

TimerFire == \E t \in timers : TimerFires(t)

\* loadAutocompleteSuggestions after its awaits: the response is ok and
\* carries data.suggestions (an absent key reads as the empty list)
SuggestionsLoaded(r, suggestions) ==
    /\ r \in suggestRequests
    /\ suggestRequests' = suggestRequests \ {r}
    /\ renderAutocompleteSuggestions(suggestions)
    /\ UNCHANGED <<pageVars, inputValue, filterVars, paperVars, timerVars, suggestIssued,
                   searchVars, clockVars>>

\* ... the response is not ok: if (!resp.ok) return
SuggestionsNotOk(r) ==
    /\ r \in suggestRequests
    /\ suggestRequests' = suggestRequests \ {r}
    /\ UNCHANGED <<pageVars, inputValue, filterVars, paperVars, acVars, timerVars, suggestIssued,
                   searchVars, clockVars>>

\* ... fetch or resp.json() rejects: the catch block
SuggestionsFailed(r) ==
    /\ r \in suggestRequests
    /\ suggestRequests' = suggestRequests \ {r}
    /\ hideAutocomplete
    /\ UNCHANGED <<pageVars, inputValue, filterVars, paperVars, timerVars, suggestIssued,
                   searchVars, clockVars>>

SuggestResponse ==
    \E r \in suggestRequests :
        \/ \E l \in SuggestionLists : SuggestionsLoaded(r, l)
        \/ SuggestionsNotOk(r)
        \/ SuggestionsFailed(r)

(***************************************************************************)
(* Main search.                                                            *)
(***************************************************************************)
SearchFailedMessage == <<"Search request failed. Please try again.">>
DefaultErrorMessage == <<"Something went wrong. Please try again.">>

\* err.message of what fetch or resp.json() rejects with: none, a network
\* error's, a JSON syntax error's (the body was an HTML page)
RejectionMessages ==
    {<<>>, <<"Failed to fetch">>, <<"Unexpected token ", "<", "!DOCTYPE">>}

Video(title) == [url |-> <<"https://v/">> \o title, title |-> title]
Repo(fields, name) ==
    [k \in fields \cup {"author"} |->
        IF k = "url" THEN <<"https://r/">> \o name ELSE name]

\* the bodies /api/search answers with: a key may be absent
SearchData ==
    {NoData,
     [took |-> <<"1">>, videos |-> <<>>, repos |-> <<>>],
     [took |-> <<"1">>, videos |-> <<Video(PlainTitle)>>,
      repos |-> <<Repo({"url", "name"}, <<"A">>), Repo({"name"}, <<"B">>)>>],
     [took |-> <<"1">>, videos |-> <<Video(QuotedTitle)>>,
      repos |-> <<Repo({"name"}, <<"B">>)>>]}

\* data.key || []
OrEmpty(data, key) == IF key \in DOMAIN data THEN data[key] ELSE <<>>

\* a field of an object that may lack it: undefined is falsy, and so is ""
Has(obj, key) == key \in DOMAIN obj /\ obj[key] # <<>>

\* setLoading(true); setLoading(false) changes nothing
setLoading ==
    /\ videosContainer' = LoadingDots
    /\ reposContainer' = LoadingDots

\* renderError that fills the video region only
RenderErrorVideosOnly(message) ==
    /\ videosContainer' = ErrorBanner(escapeHtml(message))
    /\ reposContainer' = reposContainer

\* renderError without escapeHtml
RenderErrorUnescaped(message) ==
    /\ videosContainer' = ErrorBanner(message)
    /\ reposContainer' = ErrorBanner(message)

\* renderError(message) of static/script.js
renderError(message) ==
    /\ videosContainer' = ErrorBanner(escapeHtml(message))
    /\ reposContainer' = ErrorBanner(escapeHtml(message))

\* renderError(message) of part_000: the message is not escaped
renderErrorPart000(message) ==
    /\ videosContainer' = ErrorBanner(message)
    /\ reposContainer' = ErrorBanner(message)

VideoCard(video) ==
    [href  |-> AttributeValue(escapeHtml(video.url)),
     title |-> TextContent(escapeHtml(video.title))]

\* renderVideos(videos)
renderVideos(videos) ==
    IF Len(videos) = 0
    THEN EmptyState("No video explanations found")
    ELSE [kind |-> "cards", cards |-> [i \in 1..Len(videos) |-> VideoCard(videos[i])]]

(***************************************************************************)
(* formatNumber.  Numbers are doubles: num / d is the double nearest to the *)
(* quotient, and toFixed(1) gives the tenth nearest to that double, the     *)
(* larger one when the double is halfway.                                   *)
(***************************************************************************)
DigitChars == <<"0", "1", "2", "3", "4", "5", "6", "7", "8", "9">>

\* String(num) of a non-negative integer
RECURSIVE String(_)
String(num) ==
    IF num < 10 THEN <<DigitChars[num + 1]>>
    ELSE String(num \div 10) \o <<DigitChars[(num % 10) + 1]>>

\* floor(log2(n)) of an integer n >= 1
RECURSIVE Log2(_)
Log2(n) == IF n < 2 THEN 0 ELSE 1 + Log2(n \div 2)

\* 2^k mod 5
Pow2Mod5(k) == <<1, 2, 4, 3>>[(k % 4) + 1]

\* q is odd and q/20 >= 1: the double nearest to q/20 is not below q/20.
\* With e = floor(log2(q/20)) the double keeps 52 - e fractional bits; what
\* q/20 has beyond them is t/5 of the last bit kept, t = q * 2^(50-e) mod 5,
\* and the double is the nearer neighbour.
DoubleNotBelow(q) ==
    LET e == Log2(q \div 20)
        t == ((q % 5) * Pow2Mod5(50 - e)) % 5
    IN  t = 0 \/ t > 2

\* (num / d).toFixed(1), for num >= d
toFixed(num, d) ==
    LET tenths == (10 * num) \div d
        rest   == (10 * num) % d
        up     == IF 2 * rest > d THEN TRUE
                  ELSE IF 2 * rest < d THEN FALSE
                  ELSE DoubleNotBelow(2 * tenths + 1)
        n      == IF up THEN tenths + 1 ELSE tenths
    IN  String(n \div 10) \o <<".">> \o String(n % 10)

\* formatNumber whose thresholds are exclusive
FormatNumberExclusive(num) ==
    IF num > 1000000 THEN toFixed(num, 1000000) \o <<"M">>
    ELSE IF num > 1000 THEN toFixed(num, 1000) \o <<"K">>
    ELSE String(num)

formatNumber(num) ==
    IF num >= 1000000 THEN toFixed(num, 1000000) \o <<"M">>
    ELSE IF num >= 1000 THEN toFixed(num, 1000) \o <<"K">>
    ELSE String(num)

\* repo.stars || 0
StarsOrZero(repo) == IF "stars" \in DOMAIN repo THEN repo.stars ELSE 0

\* the card of one repo, or "" for a repo without url or name
RepoCard(repo) ==
    IF ~Has(repo, "url") \/ ~Has(repo, "name")
    THEN <<>>
    ELSE <<[href  |-> AttributeValue(escapeHtml(repo.url)),
            name  |-> TextContent(escapeHtml(repo.name)),
            stars |-> formatNumber(StarsOrZero(repo))]>>

RECURSIVE JoinCards(_)
JoinCards(cards) ==
    IF cards = <<>> THEN <<>> ELSE Head(cards) \o JoinCards(Tail(cards))

\* renderRepos(repos) of static/script.js
renderRepos(repos) ==
    IF Len(repos) = 0
    THEN EmptyState("No code implementations found")
    ELSE LET html == JoinCards([i \in 1..Len(repos) |-> RepoCard(repos[i])])
         IN  IF html = <<>>
             THEN EmptyState("No valid code implementations found")
             ELSE [kind |-> "cards", cards |-> html]

\* renderRepos(repos) of part_000: every repo gets a card, a missing field
\* reads "undefined"; nothing is escaped
renderReposPart000(repos) ==
    IF Len(repos) = 0
    THEN EmptyState("No code implementations found")
    ELSE [kind |-> "cards",
          cards |-> [i \in 1..Len(repos) |->
                        [href |-> IF "url" \in DOMAIN repos[i]
                                  THEN AttributeValue(repos[i].url)
                                  ELSE <<"undefined">>,
                         name |-> IF "name" \in DOMAIN repos[i]
                                  THEN TextContent(repos[i].name)
                                  ELSE <<"undefined">>,
                         stars |-> IF "stars" \in DOMAIN repos[i]
                                   THEN formatNumber(repos[i].stars)
                                   ELSE <<"undefined">>]]]

\* renderVideos(videos) of part_000: nothing is escaped
renderVideosPart000(videos) ==
    IF Len(videos) = 0
    THEN EmptyState("No video explanations found")
    ELSE [kind |-> "cards",
          cards |-> [i \in 1..Len(videos) |->
                        [href  |-> AttributeValue(videos[i].url),
                         title |-> TextContent(videos[i].title)]]]

\* SearchUrl with the category always sent
SearchUrlAlways(query, category) ==
    <<"/api/search", "?", "q", "=">> \o encodeURIComponent(query)
        \o <<"&", "category", "=">> \o encodeURIComponent(category)

\* the URL performSearch builds
SearchUrl(query, category) ==
    <<"/api/search", "?", "q", "=">> \o encodeURIComponent(query)
        \o (IF category # <<>> /\ category # ALL
            THEN <<"&", "category", "=">> \o encodeURIComponent(category)
            ELSE <<>>)

\* the URL the submit handler of part_000 builds
SearchUrlPart000(query) ==
    <<"/api/search", "?", "q", "=">> \o encodeURIComponent(query)

\* performSearch(query), up to its await of fetch
performSearch(query) ==
    /\ searchIssued < MaxSearches
    /\ setLoading
    /\ searchIssued' = searchIssued + 1
    /\ searchRequests' = searchRequests \cup
          {[id |-> searchIssued + 1, url |-> SearchUrl(query, currentCategory)]}

\* the submit handler of static/script.js
Submit ==
    /\ script = "static"
    /\ LET query == Trim(inputValue)
       IN  IF query = <<>>
           THEN UNCHANGED <<acVars, searchVars>>
           ELSE /\ hideAutocomplete
                /\ performSearch(query)
    /\ UNCHANGED <<pageVars, inputValue, filterVars, paperVars, timerVars, suggestVars, clockVars>>

\* the field of the part_000 page has no input handler
TypePart000 ==
    /\ script = "part_000"
    /\ \E v \in InputValues : inputValue' = v
    /\ UNCHANGED <<pageVars, filterVars, paperVars, acVars, timerVars, suggestVars, searchVars,
                   clockVars>>

\* the submit handler of part_000, up to its await of fetch
SubmitPart000 ==
    /\ script = "part_000"
    /\ LET query == Trim(inputValue)
       IN  IF query = <<>>
           THEN UNCHANGED searchVars
           ELSE /\ searchIssued < MaxSearches
                /\ setLoading
                /\ searchIssued' = searchIssued + 1
                /\ searchRequests' = searchRequests \cup
                      {[id |-> searchIssued + 1, url |-> SearchUrlPart000(query)]}
    /\ UNCHANGED <<pageVars, inputValue, filterVars, paperVars, acVars, timerVars, suggestVars,
                   clockVars>>

\* performSearch, or the submit handler of part_000, after the awaits:
\* the response is ok and its body is data
SearchLoaded(r, data) ==
    /\ r \in searchRequests
    /\ searchRequests' = searchRequests \ {r}
    /\ IF script = "static"
       THEN /\ videosContainer' = renderVideos(OrEmpty(data, "videos"))
            /\ reposContainer' = renderRepos(OrEmpty(data, "repos"))
       ELSE /\ videosContainer' = renderVideosPart000(OrEmpty(data, "videos"))
            /\ reposContainer' = renderReposPart000(OrEmpty(data, "repos"))
    /\ UNCHANGED <<pageVars, inputValue, filterVars, paperVars, acVars, timerVars, suggestVars,
                   searchIssued, clockVars>>

\* err.message || "Something went wrong. Please try again."
MessageOf(message) == IF message # <<>> THEN message ELSE DefaultErrorMessage

\* ... the response is not ok: throw new Error("Search request failed...")
SearchNotOk(r) ==
    /\ r \in searchRequests
    /\ searchRequests' = searchRequests \ {r}
    /\ IF script = "static"
       THEN renderError(MessageOf(SearchFailedMessage))
       ELSE renderErrorPart000(MessageOf(SearchFailedMessage))
    /\ UNCHANGED <<pageVars, inputValue, filterVars, paperVars, acVars, timerVars, suggestVars,
                   searchIssued, clockVars>>

\* ... fetch or resp.json() rejects with an error whose message is message
SearchFailed(r, message) ==
    /\ r \in searchRequests
    /\ searchRequests' = searchRequests \ {r}
    /\ IF script = "static"
       THEN renderError(MessageOf(message))
       ELSE renderErrorPart000(MessageOf(message))
    /\ UNCHANGED <<pageVars, inputValue, filterVars, paperVars, acVars, timerVars, suggestVars,
                   searchIssued, clockVars>>

SearchResponse ==
    \E r \in searchRequests :
        \/ \E data \in SearchData : SearchLoaded(r, data)
        \/ SearchNotOk(r)
        \/ \E m \in RejectionMessages : SearchFailed(r, m)

(***************************************************************************)
(* Keyboard and mouse on the dropdown.                                     *)
(***************************************************************************)
Keys == {"ArrowDown", "ArrowUp", "Enter", "Escape"}

\* the click handler of an .autocomplete-item, and the Enter case of
\* handleAutocompleteKeyboard: paperTitle = item.dataset.paper
CommitSuggestion(item) ==
    /\ inputValue' = item.paper
    /\ hideAutocomplete
    /\ performSearch(item.paper)

\* the ArrowDown case without Math.min
ArrowDownUnclamped == selectedSuggestionIndex + 1

\* the ArrowDown case: Math.min(selectedSuggestionIndex + 1, items.length - 1)
ArrowDownIndex == Min(selectedSuggestionIndex + 1, Len(dropdownItems) - 1)

\* the ArrowUp case: Math.max(selectedSuggestionIndex - 1, -1)
ArrowUpIndex == Max(selectedSuggestionIndex - 1, -1)

\* handleAutocompleteKeyboard(event)
handleAutocompleteKeyboard(key) ==
    /\ script = "static"
    /\ IF ~dropdownVisible \/ Len(dropdownItems) = 0
       THEN UNCHANGED <<inputValue, acVars, searchVars>>
       ELSE CASE key = "ArrowDown" ->
                   /\ selectedSuggestionIndex' = ArrowDownIndex
                   /\ UNCHANGED <<inputValue, autocompleteSuggestions, dropdownVisible,
                                  dropdownItems, searchVars>>
              [] key = "ArrowUp" ->
                   /\ selectedSuggestionIndex' = ArrowUpIndex
                   /\ UNCHANGED <<inputValue, autocompleteSuggestions, dropdownVisible,
                                  dropdownItems, searchVars>>
              [] key = "Enter" ->
                   IF selectedSuggestionIndex >= 0
                        /\ selectedSuggestionIndex < Len(dropdownItems)
                   THEN CommitSuggestion(dropdownItems[selectedSuggestionIndex + 1])
                   ELSE UNCHANGED <<inputValue, acVars, searchVars>>
              [] key = "Escape" ->
                   /\ hideAutocomplete
                   /\ UNCHANGED <<inputValue, searchVars>>
    /\ UNCHANGED <<pageVars, filterVars, paperVars, timerVars, suggestVars, clockVars>>

KeyDown == \E key \in Keys : handleAutocompleteKeyboard(key)

\* the mouseenter handler reading the index as a row number from 1
MouseEnterFromOne(i) ==
    /\ script = "static"
    /\ i \in 0..(Len(dropdownItems) - 1)
    /\ selectedSuggestionIndex' = i + 1
    /\ UNCHANGED <<pageVars, inputValue, filterVars, paperVars, autocompleteSuggestions,
                   dropdownVisible, dropdownItems, timerVars, suggestVars,
                   searchVars, clockVars>>

\* the mouseenter handler of the item with data-index i
MouseEnter(i) ==
    /\ script = "static"
    /\ i \in 0..(Len(dropdownItems) - 1)
    /\ selectedSuggestionIndex' = i
    /\ UNCHANGED <<pageVars, inputValue, filterVars, paperVars, autocompleteSuggestions,
                   dropdownVisible, dropdownItems, timerVars, suggestVars,
                   searchVars, clockVars>>

Hover == \E i \in 0..(MaxSuggestions - 1) : MouseEnter(i)

\* the click handler of the item with data-index i
ItemClick(i) ==
    /\ script = "static"
    /\ i \in 0..(Len(dropdownItems) - 1)
    /\ CommitSuggestion(dropdownItems[i + 1])
    /\ UNCHANGED <<pageVars, filterVars, paperVars, timerVars, suggestVars, clockVars>>

ClickItem == \E i \in 0..(MaxSuggestions - 1) : ItemClick(i)

\* the click handler of document without its test of the target
DocumentClickAnywhere(inside) ==
    /\ script = "static"
    /\ hideAutocomplete
    /\ UNCHANGED <<pageVars, inputValue, filterVars, paperVars, timerVars, suggestVars,
                   searchVars, clockVars>>

\* the click handler of document: inside is whether the target is in the
\* search field or in the dropdown
DocumentClick(inside) ==
    /\ script = "static"
    /\ IF inside THEN UNCHANGED acVars ELSE hideAutocomplete
    /\ UNCHANGED <<pageVars, inputValue, filterVars, paperVars, timerVars, suggestVars,
                   searchVars, clockVars>>

ClickDocument == \E inside \in BOOLEAN : DocumentClick(inside)

(***************************************************************************)
(* Filters and the popular-papers panel.                                   *)
(***************************************************************************)
\* the click handler of the .category-item of category c: the category is
\* read back from data-category="${escapeHtml(category)}"
CategoryClick(c) ==
    /\ script = "static"
    /\ currentCategory' = AttributeValue(escapeHtml(c))
    /\ loadPopularPapers(currentCategory', currentYear)
    /\ UNCHANGED <<pageVars, inputValue, currentYear, acVars, timerVars, suggestVars,
                   searchVars, clockVars>>

ClickCategory == \E c \in Categories : CategoryClick(c)

\* the change handler of the year selector: event.target.value || null
YearChange(y) ==
    /\ script = "static"
    /\ currentYear' = y
    /\ loadPopularPapers(currentCategory, currentYear')
    /\ UNCHANGED <<pageVars, inputValue, currentCategory, acVars, timerVars,
                   suggestVars, searchVars, clockVars>>

ChangeYear == \E y \in Years : YearChange(y)

\* loadPopularPapers after its awaits: the response is ok with body data
PapersLoaded(r, data) ==
    /\ r \in paperRequests
    /\ paperRequests' = paperRequests \ {r}
    /\ popularPapersContainer' =
          renderPopularPapers(OrEmpty(data, "papers"), currentCategory)
    /\ UNCHANGED <<pageVars, inputValue, filterVars, paperIssued, acVars, timerVars,
                   suggestVars, searchVars, clockVars>>

\* ... the response is not ok, or fetch or resp.json() rejects
PapersFailed(r) ==
    /\ r \in paperRequests
    /\ paperRequests' = paperRequests \ {r}
    /\ popularPapersContainer' = EmptyState("Failed to load popular papers")
    /\ UNCHANGED <<pageVars, inputValue, filterVars, paperIssued, acVars, timerVars,
                   suggestVars, searchVars, clockVars>>

PapersResponse ==
    \E r \in paperRequests :
        \/ \E data \in PapersData : PapersLoaded(r, data)
        \/ PapersFailed(r)

\* the click handler of the i-th .paper-card: the title goes into the
\* search field; no search is started and no input event is fired
PaperCardClick(i) ==
    /\ script = "static"
    /\ popularPapersContainer.kind = "cards"
    /\ i \in 1..Len(popularPapersContainer.cards)
    /\ inputValue' = popularPapersContainer.cards[i].paper
    /\ UNCHANGED <<pageVars, filterVars, paperVars, acVars, timerVars, suggestVars,
                   searchVars, clockVars>>

ClickPaperCard == PaperCardClick(1)

(***************************************************************************)
(* Specifications.                                                         *)
(***************************************************************************)
\* The autocomplete: typing, the debounce timer, the suggestion requests,
\* keyboard and mouse on the dropdown.  A committed suggestion starts a
\* search, whose response is left in flight.
AutocompleteInit == Init /\ script = "static"

AutocompleteNext ==
    \/ Input
    \/ Tick
    \/ TimerFire
    \/ SuggestResponse
    \/ KeyDown
    \/ Hover
    \/ ClickItem
    \/ ClickDocument

AutocompleteSpec == AutocompleteInit /\ [][AutocompleteNext]_vars

\* The page at rest after the user has typed v: on the static page the
\* input handler has run and, for a query of two characters or more, its
\* timer has fired and the request has been answered with no suggestion.
Typed(v) ==
    /\ inputValue = v
    /\ IF script = "static"
       THEN /\ lastInput = Trim(v)
            /\ IF Len(Trim(v)) < 2
               THEN /\ autocompleteDebounceTimer = NoTimer
                    /\ timerCount = 0
                    /\ suggestIssued = 0
                    /\ sinceInput = 0
               ELSE /\ autocompleteDebounceTimer = 1
                    /\ timerCount = 1
                    /\ suggestIssued = 1
                    /\ sinceInput = DebounceDelay
       ELSE /\ lastInput = <<>>
            /\ autocompleteDebounceTimer = NoTimer
            /\ timerCount = 0
            /\ suggestIssued = 0
            /\ sinceInput = 0

SearchInit ==
    /\ renderArg = NoData
    /\ script \in Scripts
    /\ \E v \in InputValues : Typed(v)
    /\ currentCategory = ALL
    /\ currentYear = NoYear
    /\ autocompleteSuggestions = <<>>
    /\ selectedSuggestionIndex = -1
    /\ dropdownVisible = FALSE
    /\ dropdownItems = <<>>
    /\ timers = {}
    /\ suggestRequests = {}
    /\ searchRequests = {}
    /\ searchIssued = 0
    /\ videosContainer = Blank
    /\ reposContainer = Blank
    /\ IF script = "static"
       THEN /\ popularPapersContainer = LoadingState
            /\ paperRequests = {[id |-> 1, url |-> PopularPapersUrl(ALL, NoYear)]}
            /\ paperIssued = 1
       ELSE /\ popularPapersContainer = Blank
            /\ paperRequests = {}
            /\ paperIssued = 0

\* The main search: submitting, changing the filters, the responses.
SearchNext ==
    \/ Submit
    \/ TypePart000
    \/ SubmitPart000
    \/ SearchResponse
    \/ ClickCategory
    \/ ChangeYear

SearchSpec == SearchInit /\ [][SearchNext]_vars

\* The main search under the assumption that every request is answered.
SearchLiveSpec == SearchSpec /\ WF_vars(SearchResponse)

\* renderRepos alone, on every list of up to MaxRepos repos of these kinds:
\* two complete ones, one without url, one without name, one whose url is
\* empty; and on a body without the repos key.
RepoKinds ==
    {Repo({"url", "name"}, <<"A">>), Repo({"url", "name"}, <<"B">>),
     Repo({"name"}, <<"C">>), Repo({"url"}, <<"D">>),
     [Repo({"url", "name"}, <<"E">>) EXCEPT !.url = <<>>]}

RECURSIVE RepoListsUpTo(_)
RepoListsUpTo(n) ==
    IF n = 0 THEN {<<>>}
    ELSE LET shorter == RepoListsUpTo(n - 1)
         IN  shorter \cup {Append(l, k) : l \in {m \in shorter : Len(m) = n - 1},
                                          k \in RepoKinds}

RenderData ==
    {NoData} \cup {[took |-> <<"1">>, repos |-> l] : l \in RepoListsUpTo(MaxRepos)}

RenderInit == PageInit /\ renderArg \in RenderData

\* renderRepos(data.repos || []) of the page's script
RenderRepos ==
    /\ reposContainer = Blank
    /\ reposContainer' = IF script = "static"
                         THEN renderRepos(OrEmpty(renderArg, "repos"))
                         ELSE renderReposPart000(OrEmpty(renderArg, "repos"))
    /\ UNCHANGED <<pageVars, inputValue, filterVars, paperVars, acVars, timerVars,
                   suggestVars, searchRequests, searchIssued, videosContainer,
                   clockVars>>

RenderNext == RenderRepos

RenderSpec == RenderInit /\ [][RenderNext]_vars

\* renderRepos alone, on one repo whose star count is one of these: the
\* small counts, the thousands in steps that meet the halfway cases, the
\* counts around a million, the millions in such steps, and larger ones
Counts ==
    (0..1100) \cup {1000 + 50 * k : k \in 0..400}
              \cup (999900..1000100)
              \cup {1000000 + 50000 * k : k \in 0..60}
              \cup {1234567, 12345678, 123456789}

Starred(num) ==
    [url |-> <<"https://r/", "A">>, name |-> <<"A">>, author |-> <<"A">>,
     stars |-> num]

FormatData == {[took |-> <<"1">>, repos |-> <<Starred(num)>>] : num \in Counts}

FormatInit == PageInit /\ renderArg \in FormatData

FormatNext == RenderRepos

FormatSpec == FormatInit /\ [][FormatNext]_vars

\* The popular-papers panel.
PapersNext ==
    \/ ClickCategory
    \/ ChangeYear
    \/ PapersResponse
    \/ ClickPaperCard

PapersInit == Init /\ script = "static"

PapersSpec == PapersInit /\ [][PapersNext]_vars

Next == AutocompleteNext \/ SearchNext \/ PapersNext \/ RenderNext

Spec == Init /\ [][Next]_vars

(***************************************************************************)
(* Reading a request back, as the server does.                             *)
(***************************************************************************)
DecodeAtom(c) ==
    CASE c = "%20" -> SPACE
      [] c = "%22" -> QUOTE
      [] c = "%26" -> "&"
      [] c = "%3C" -> "<"
      [] c = "%3D" -> "="
      [] c = "%3F" -> "?"
      [] OTHER     -> c

\* the atoms of s from position i up to the next & (or the end)
RECURSIVE UpToAmpersand(_, _)
UpToAmpersand(s, i) ==
    IF i > Len(s) \/ s[i] = "&" THEN <<>>
    ELSE <<s[i]>> \o UpToAmpersand(s, i + 1)

\* the positions of url at which parameter key is given: after ? or &
ParamPositions(url, key) ==
    {i \in 2..(Len(url) - 1) :
        url[i] = key /\ url[i + 1] = "=" /\ url[i - 1] \in {"?", "&"}}

HasParam(url, key) == ParamPositions(url, key) # {}

ParamValue(url, key) ==
    LET i == CHOOSE j \in ParamPositions(url, key) : TRUE
        raw == UpToAmpersand(url, i + 2)
    IN  [k \in 1..Len(raw) |-> DecodeAtom(raw[k])]

Path(url) == url[1]

(***************************************************************************)
(* Properties.                                                             *)
(***************************************************************************)
Idle ==
    /\ ~dropdownVisible
    /\ dropdownItems = <<>>
    /\ autocompleteSuggestions = <<>>
    /\ selectedSuggestionIndex = -1

\* the step answers suggestion request r
Answers(r) == r \in suggestRequests /\ suggestRequests' = suggestRequests \ {r}

(* C1: stale-response suppression.  Once the most recently issued          *)
(* suggestion request has been answered, the answer to an earlier request  *)
(* that arrives after it changes neither the suggestion list nor the       *)
(* visibility of the dropdown: the state stays the outcome of the most     *)
(* recently issued request, whatever the order of the answers.             *)
C1_StaleResponseSuppressed ==
    [][\A r \in suggestRequests :
          (/\ Answers(r)
           /\ r.id # suggestIssued
           /\ \A l \in suggestRequests : l.id # suggestIssued)
              => UNCHANGED <<autocompleteSuggestions, dropdownVisible>>]_vars

(* C2: debounce.  Every input event cancels the timer armed before it; at  *)
(* most one timer is armed, it is the one the handle names, it belongs to  *)
(* the most recent input event, whose query has two characters or more;    *)
(* a suggestion request is issued only when the delay has passed since     *)
(* the most recent input event, one at a time, for that event's query,     *)
(* and leaves no timer armed: a burst of inputs less than the delay apart  *)
(* gives exactly one request, for the last query.                          *)
C2_Debounce ==
    /\ [](/\ Cardinality(timers) <= 1
          /\ \A t \in timers :
                /\ t.id = autocompleteDebounceTimer
                /\ t.query = lastInput
                /\ Len(lastInput) >= 2
                /\ t.remaining + sinceInput = DebounceDelay)
    /\ [][/\ (\E v \in InputValues : handleSearchInput(v))
                => timers' \cap timers = {}
          /\ suggestIssued' # suggestIssued
                => /\ suggestIssued' = suggestIssued + 1
                   /\ sinceInput = DebounceDelay
                   /\ timers' = {}
                   /\ \E r \in suggestRequests' :
                         /\ suggestRequests' = suggestRequests \cup {r}
                         /\ r \notin suggestRequests
                         /\ Path(r.url) = "/api/search-suggestions"
                         /\ ParamValue(r.url, "q") = lastInput
                         /\ Len(lastInput) >= 2]_vars

\* two timers were armed, and the one request there is is for "aaa", the
\* query of the latest input
C2_Witness ==
    /\ timerCount = 2
    /\ suggestIssued = 1
    /\ timers = {}
    /\ lastInput = <<"a", "a", "a">>
    /\ \E r \in suggestRequests : ParamValue(r.url, "q") = <<"a", "a", "a">>

(* C3: a suggestion request that is answered with an empty list, or that   *)
(* fails (network error, or a response that is not ok), leaves the         *)
(* autocomplete idle: dropdown hidden and empty, no suggestion, selected   *)
(* index -1; and puts nothing into the video and repo regions.             *)
C3_FailureDismisses ==
    [][\A r \in suggestRequests :
          (\/ SuggestionsLoaded(r, <<>>)
           \/ SuggestionsNotOk(r)
           \/ SuggestionsFailed(r))
              => Idle' /\ UNCHANGED <<videosContainer, reposContainer>>]_vars

(* C4: keyboard navigation is clamped.  While the dropdown is shown,       *)
(* ArrowDown sets the selected index to min(index + 1, count - 1) and      *)
(* ArrowUp to max(index - 1, -1), count being the number of suggestions;   *)
(* neither changes anything else; the index stays within -1 .. count - 1.  *)
C4_KeyboardClamped ==
    /\ [](dropdownVisible =>
            selectedSuggestionIndex \in -1..(Len(autocompleteSuggestions) - 1))
    /\ [][/\ (dropdownVisible /\ handleAutocompleteKeyboard("ArrowDown"))
                => /\ selectedSuggestionIndex' =
                        Min(selectedSuggestionIndex + 1,
                            Len(autocompleteSuggestions) - 1)
                   /\ UNCHANGED <<autocompleteSuggestions, dropdownVisible>>
          /\ (dropdownVisible /\ handleAutocompleteKeyboard("ArrowUp"))
                => /\ selectedSuggestionIndex' =
                        Max(selectedSuggestionIndex - 1, -1)
                   /\ UNCHANGED <<autocompleteSuggestions, dropdownVisible>>]_vars

\* three suggestions are shown and the last one is selected
C4_Witness ==
    /\ dropdownVisible
    /\ Len(autocompleteSuggestions) = 3
    /\ selectedSuggestionIndex = 2

\* the step answers search request r
AnswersSearch(r) == r \in searchRequests /\ searchRequests' = searchRequests \ {r}

\* the step starts a search
StartsSearch == searchIssued' # searchIssued

\* both regions show the error banner whose text is message
ShowsError(message) ==
    /\ videosContainer = [kind |-> "error-banner", text |-> message]
    /\ reposContainer = [kind |-> "error-banner", text |-> message]

(* C5: when the main search of static/script.js fails, both regions show   *)
(* the same error banner.  Its text is "Search request failed. Please try  *)
(* again." when the response is not ok, the message of the error when      *)
(* fetch rejects with one, and "Something went wrong. Please try again."   *)
(* when the error has no message; neither region keeps the loading dots    *)
(* or shows results.                                                       *)
C5_SearchFailureBanner ==
    [][script = "static" =>
          \A r \in searchRequests :
             /\ SearchNotOk(r) => ShowsError(SearchFailedMessage)'
             /\ \A m \in RejectionMessages :
                   SearchFailed(r, m) =>
                      ShowsError(IF m = <<>> THEN DefaultErrorMessage ELSE m)']_vars

\* a search of the static page has failed with a JSON syntax error, whose
\* message holds a <, and both regions show that message
C5_Witness ==
    /\ script = "static"
    /\ searchIssued > 0
    /\ ShowsError(<<"Unexpected token ", "<", "!DOCTYPE">>)

(* C6: loading is only the initial state of a search.  The step that       *)
(* starts a search puts the loading dots into both regions; the step that  *)
(* answers a search request, with success or with failure, leaves neither  *)
(* region showing them; and, every request being answered eventually, a    *)
(* region that shows the loading dots eventually shows something else.     *)
C6_LoadingIsInitial ==
    /\ [][/\ StartsSearch
                => (videosContainer = LoadingDots /\ reposContainer = LoadingDots)'
          /\ (\E r \in searchRequests : AnswersSearch(r))
                => (videosContainer # LoadingDots /\ reposContainer # LoadingDots)']_vars
    /\ (videosContainer = LoadingDots \/ reposContainer = LoadingDots)
          ~> (videosContainer # LoadingDots /\ reposContainer # LoadingDots)

\* two searches were started and answered, and the regions show an outcome
C6_Witness ==
    /\ searchIssued = 2
    /\ searchRequests = {}
    /\ videosContainer.kind = "cards"
    /\ reposContainer.kind = "empty-state"

(* C7: every search issues exactly one request, to /api/search, whose q    *)
(* is the query (the trimmed value of the search field); the request has   *)
(* a category parameter exactly when the current category is not "All",    *)
(* and then it is the current category; it never has a year parameter.     *)
C7_SearchRequest ==
    [][StartsSearch =>
          /\ searchIssued' = searchIssued + 1
          /\ \E r \in searchRequests' :
                /\ r \notin searchRequests
                /\ searchRequests' = searchRequests \cup {r}
                /\ Path(r.url) = "/api/search"
                /\ HasParam(r.url, "q")
                /\ ParamValue(r.url, "q") = Trim(inputValue)
                /\ HasParam(r.url, "category") <=> currentCategory # ALL
                /\ HasParam(r.url, "category")
                      => ParamValue(r.url, "category") = currentCategory
                /\ ~HasParam(r.url, "year")]_vars

\* a year is selected, the category is NLP, and the request in flight is
\* /api/search?q=aa&category=NLP
C7_Witness ==
    /\ currentYear # NoYear
    /\ currentCategory = <<"NLP">>
    /\ \E r \in searchRequests :
          r.url = <<"/api/search", "?", "q", "=", "a", "a", "&", "category", "=", "NLP">>

(* C8: a search whose query, trimmed, is empty is a no-op, however it is   *)
(* triggered: no request to /api/search is ever issued for such a query    *)
(* (and so no loading block is shown for one).                             *)
C8_BlankSearchIsNoOp ==
    [][StartsSearch =>
          \A r \in searchRequests' \ searchRequests :
             Trim(ParamValue(r.url, "q")) # <<>>]_vars

\* the step commits the suggestion of row i (from 0): a click on the row,
\* or Enter while the row is selected
Commits(i) ==
    \/ ItemClick(i)
    \/ /\ dropdownVisible
       /\ selectedSuggestionIndex = i
       /\ i < Len(dropdownItems)
       /\ handleAutocompleteKeyboard("Enter")

(* C9: committing a suggestion (a click on its row, or Enter while it is   *)
(* selected) copies the title of that suggestion into the search field,    *)
(* leaves the autocomplete idle and starts exactly one search, whose query *)
(* is that title; Enter with no row selected changes nothing.              *)
C9_Commit ==
    [][/\ \A i \in 0..(Len(autocompleteSuggestions) - 1) :
             Commits(i) =>
                /\ inputValue' = autocompleteSuggestions[i + 1].title
                /\ Idle'
                /\ searchIssued' = searchIssued + 1
                /\ \E r \in searchRequests' :
                      /\ searchRequests' = searchRequests \cup {r}
                      /\ r \notin searchRequests
                      /\ ParamValue(r.url, "q") = autocompleteSuggestions[i + 1].title
       /\ (selectedSuggestionIndex = -1 /\ handleAutocompleteKeyboard("Enter"))
             => UNCHANGED vars]_vars

\* the repos of renderArg, as given to renderRepos
ReposGiven == OrEmpty(renderArg, "repos")

\* the repo has both a url and a name
ValidRepo(repo) == Has(repo, "url") /\ Has(repo, "name")

(* C10: renderRepos drops the invalid repos and keeps the two empty states *)
(* apart.  The cards are those of the repos that have both a url and a     *)
(* name, in the order of the input; no repo at all (or no list) gives the  *)
(* empty state "No code implementations found"; repos none of which is     *)
(* valid give the empty state "No valid code implementations found".       *)
C10_RenderRepos ==
    reposContainer # Blank =>
        LET valid == SelectSeq(ReposGiven, ValidRepo)
        IN  IF Len(ReposGiven) = 0
            THEN reposContainer = EmptyState("No code implementations found")
            ELSE IF Len(valid) = 0
            THEN reposContainer = EmptyState("No valid code implementations found")
            ELSE /\ reposContainer.kind = "cards"
                 /\ Len(reposContainer.cards) = Len(valid)
                 /\ \A i \in 1..Len(valid) :
                       /\ reposContainer.cards[i].name = valid[i].name
                       /\ reposContainer.cards[i].href = valid[i].url

\* the same, of the renderRepos of static/script.js alone
C10_RenderReposStatic == script = "static" => C10_RenderRepos

\* the number a string of digits reads as, -1 when it is no decimal numeral
\* (a character that is no digit, or a leading zero)
RECURSIVE DigitsValue(_)
DigitsValue(s) ==
    IF Len(s) = 0 THEN -1
    ELSE LET d == {i \in 1..10 : DigitChars[i] = s[Len(s)]}
         IN  IF d = {} THEN -1
             ELSE IF Len(s) = 1 THEN (CHOOSE i \in d : TRUE) - 1
             ELSE LET front == DigitsValue(SubSeq(s, 1, Len(s) - 1))
                  IN  IF front < 1 THEN -1
                      ELSE 10 * front + (CHOOSE i \in d : TRUE) - 1

\* s is a numeral with one decimal place followed by the suffix: its value
\* in tenths, -1 when it is not of that form
TenthsValue(s, suffix) ==
    IF Len(s) < 4 \/ s[Len(s)] # suffix \/ s[Len(s) - 2] # "." THEN -1
    ELSE LET whole == IF SubSeq(s, 1, Len(s) - 3) = <<"0">> THEN 0
                      ELSE DigitsValue(SubSeq(s, 1, Len(s) - 3))
             tenth == DigitsValue(<<s[Len(s) - 1]>>)
         IN  IF whole < 0 \/ tenth < 0 THEN -1 ELSE 10 * whole + tenth

\* the count given to formatNumber and what the card shows for it
CountGiven == ReposGiven[1].stars
CountShown == reposContainer.cards[1].stars
Formatted ==
    /\ Len(ReposGiven) = 1
    /\ "stars" \in DOMAIN ReposGiven[1]
    /\ reposContainer # Blank

(* C11: formatNumber (the spec's formatCount) on a non-negative integer n  *)
(* gives n's decimal numeral when n < 1000; n/1000 to one decimal place    *)
(* (a tenth nearest to n/1000) followed by "K" when 1000 <= n < 1000000;   *)
(* n/1000000 to one decimal place followed by "M" otherwise.  0 gives "0", *)
(* 999 gives "999", 1000 gives "1.0K" and 1500000 gives "1.5M".            *)
C11_FormatCount ==
    Formatted =>
        LET n == CountGiven
            s == CountShown
            k == TenthsValue(s, "K")
            m == TenthsValue(s, "M")
        IN  /\ n < 1000 => DigitsValue(s) = n \/ (n = 0 /\ s = <<"0">>)
            /\ (1000 <= n /\ n < 1000000) =>
                  k >= 0 /\ 100 * k - n <= 50 /\ n - 100 * k <= 50
            /\ n >= 1000000 =>
                  m >= 0 /\ m <= 1300
                  /\ 100000 * m - n <= 50000 /\ n - 100000 * m <= 50000
            /\ n = 0 => s = <<"0">>
            /\ n = 999 => s = <<"9", "9", "9">>
            /\ n = 1000 => s = <<"1", ".", "0", "K">>
            /\ n = 1500000 => s = <<"1", ".", "5", "M">>

\* a count of a million and a half has been formatted
C11_Witness == Formatted /\ CountGiven = 1500000 /\ CountShown = <<"1", ".", "5", "M">>

\* a response carrying a non-empty list is rendered
RendersSuggestions ==
    \E r \in suggestRequests : \E l \in SuggestionLists :
        Len(l) > 0 /\ SuggestionsLoaded(r, l)

(* C12: the autocomplete state after every handler and every completion:   *)
(* the dropdown is visible exactly when the suggestion list is not empty;  *)
(* the selected index is between -1 and the number of suggestions minus 1; *)
(* a hidden dropdown goes with an empty list and the index -1; and every   *)
(* render of a non-empty list leaves the index at -1.                      *)
C12_AutocompleteInvariant ==
    /\ [](/\ dropdownVisible <=> Len(autocompleteSuggestions) > 0
          /\ selectedSuggestionIndex \in -1..(Len(autocompleteSuggestions) - 1)
          /\ ~dropdownVisible =>
                autocompleteSuggestions = <<>> /\ selectedSuggestionIndex = -1)
    /\ [][RendersSuggestions =>
             selectedSuggestionIndex' = -1 /\ autocompleteSuggestions' # <<>>]_vars

\* the last of several rows is selected while another response is due: its
\* render replaces the list under the selection
C12_Witness ==
    /\ dropdownVisible
    /\ Len(autocompleteSuggestions) > 1
    /\ selectedSuggestionIndex = Len(autocompleteSuggestions) - 1
    /\ suggestRequests # {}

\* every search started after request r has been answered already
Superseded(r) ==
    /\ r.id < searchIssued
    /\ \A later \in searchRequests : later.id <= r.id

(* C13: a search result is superseded, never overtaken.  When two searches *)
(* overlap and the response of the later-started one has arrived, the      *)
(* response of the earlier one, arriving after it, leaves the video region *)
(* and the repo region as the later search's outcome left them; and each   *)
(* completion fills both regions from one response.                        *)
C13_SearchSuperseded ==
    [][\A r \in searchRequests :
          (script = "static" /\ AnswersSearch(r) /\ Superseded(r)) =>
              UNCHANGED <<videosContainer, reposContainer>>]_vars

\* the step answers popular-papers request r
AnswersPapers(r) == r \in paperRequests /\ paperRequests' = paperRequests \ {r}

\* every popular-papers request issued after r has been answered already
SupersededLoad(r) ==
    /\ r.id < paperIssued
    /\ \A later \in paperRequests : later.id <= r.id

(* C14: the popular-papers panel follows the current filters.  The         *)
(* response of a request issued for an earlier selection, arriving after   *)
(* the response of every later request, leaves the panel as it is, so that *)
(* the panel ends with the outcome of the request for the current          *)
(* category and year; a failed load puts the empty state "Failed to load   *)
(* popular papers" in the panel and leaves the video and repo regions      *)
(* alone.                                                                  *)
C14_PanelFollowsFilters ==
    [][\A r \in paperRequests :
          /\ (AnswersPapers(r) /\ SupersededLoad(r)) =>
                UNCHANGED popularPapersContainer
          /\ PapersFailed(r) =>
                /\ popularPapersContainer' = EmptyState("Failed to load popular papers")
                /\ UNCHANGED <<videosContainer, reposContainer>>]_vars

\* The search field holds a value that no input event gave it: a suggestion
\* has been committed, which dismissed the autocomplete, and no input event
\* has come since.
CommittedSinceInput == inputValue \notin InputValues

(* C15: a dismissal is final until new input.  After the commit of a       *)
(* suggestion, and for as long as no input event follows, the dropdown     *)
(* stays hidden and the suggestion list stays empty: neither a timer armed *)
(* before the commit nor a request issued before it shows the dropdown     *)
(* again.                                                                  *)
C15_DismissalFinal == CommittedSinceInput => Idle

(* C16: an input event whose trimmed value has fewer than 2 characters     *)
(* cancels the pending debounce timer, arms none, issues no suggestion     *)
(* request, and leaves the autocomplete idle: dropdown hidden and empty,   *)
(* no suggestions, selected index -1.                                      *)
C16_ShortInput ==
    [][\A v \in InputValues :
          (handleSearchInput(v) /\ Len(Trim(v)) < 2) =>
              /\ timers' = {}
              /\ timerCount' = timerCount
              /\ suggestRequests' = suggestRequests
              /\ suggestIssued' = suggestIssued
              /\ Idle']_vars

\* a short value has just been typed; the one timer armed so far never
\* fired and is armed no more
C16_Witness ==
    /\ Len(lastInput) < 2
    /\ sinceInput = 0
    /\ inputValue # <<>>
    /\ timerCount = 1
    /\ suggestIssued = 0
    /\ timers = {}
    /\ Idle

(* C17: Escape pressed while the dropdown is shown, and a click outside    *)
(* both the search field and the dropdown, leave the autocomplete idle     *)
(* (dropdown hidden and emptied, no suggestions, selected index -1); the   *)
(* document's click handler does not dismiss on a click inside the field   *)
(* or the dropdown; neither dismissal starts a search or changes the video *)
(* and repo regions.                                                       *)
C17_Dismissal ==
    [][/\ (dropdownVisible /\ handleAutocompleteKeyboard("Escape")) =>
             Idle' /\ UNCHANGED <<searchVars, inputValue>>
       /\ DocumentClick(FALSE) =>
             Idle' /\ UNCHANGED <<searchVars, inputValue>>
       /\ DocumentClick(TRUE) =>
             UNCHANGED <<acVars, searchVars, inputValue>>]_vars

\* suggestions are shown with the first row selected, no search has been
\* started: Escape and the clicks act on this state
C17_Witness ==
    /\ dropdownVisible
    /\ selectedSuggestionIndex = 0
    /\ Len(dropdownItems) > 0
    /\ searchIssued = 0
    /\ videosContainer = Blank

(* C18: the frame of the events that commit nothing.  Hovering a row sets  *)
(* the selected index to that row's index and changes neither the          *)
(* dropdown's visibility nor the suggestion list; a key pressed while the  *)
(* dropdown is not visible leaves suggestions, selected index and          *)
(* visibility as they are and starts no search.                            *)
C18_Frame ==
    [][/\ \A i \in 0..(MaxSuggestions - 1) :
             MouseEnter(i) =>
                /\ selectedSuggestionIndex' = i
                /\ i < Len(autocompleteSuggestions)
                /\ UNCHANGED <<dropdownVisible, autocompleteSuggestions,
                               dropdownItems, searchVars, inputValue>>
       /\ \A key \in Keys :
             (~dropdownVisible /\ handleAutocompleteKeyboard(key)) =>
                UNCHANGED <<acVars, searchVars, inputValue>>]_vars

\* the second of two rows is selected and nothing is pending: a hover (or
\* the arrow keys) put the selection there
C18_Witness ==
    /\ dropdownVisible
    /\ Len(autocompleteSuggestions) = 2
    /\ selectedSuggestionIndex = 1
    /\ timers = {}
    /\ suggestRequests = {}

=============================================================================
